---------------------------- MODULE Spec2Model ----------------------------
(***************************************************************************)
(* Model of the ohmic-area pipeline of watex/tools/exmath.py:              *)
(*   find_limit_for_integration, find_bound_for_integration,               *)
(*   vesDataOperator and ohmicArea,                                        *)
(* and of the anomaly classifiers and the fit of the same file:            *)
(*   shape, _type_mechanism, type_, fitfunc, scalePosition and             *)
(*   dummy_basement_curve.                                                 *)
(*                                                                         *)
(* Python values are modelled as follows.                                  *)
(*   - a 1-d integer numpy array or a Python list: a sequence of integers; *)
(*   - a call's outcome: a record whose field err is "none" when the call  *)
(*     returned and the name of the exception when it raised;              *)
(*   - the default argument b0=[] of the two bound finders: one list per   *)
(*     function, created when the function is defined and shared by every  *)
(*     call that omits b0 (variables b0Bound and b0Limit).                 *)
(***************************************************************************)
EXTENDS Integers, Sequences, FiniteSets, TLC

VARIABLES phase, input, result, b0Bound, b0Limit

vars == <<phase, input, result, b0Bound, b0Limit>>

(***************************************************************************)
(* Bounds of the model.                                                    *)
(***************************************************************************)
\* index arrays hold indices 0..MaxIdx
MaxIdx == 3
\* a call that omits b0 is explored while the two default lists together
\* hold at most MaxAcc entries
MaxAcc == 2

(***************************************************************************)
(* Sequence helpers (numpy reductions and slicing).                        *)
(***************************************************************************)
Range(s) == {s[i] : i \in 1..Len(s)}

SetMin(S) == CHOOSE x \in S : \A y \in S : x <= y

SetMax(S) == CHOOSE x \in S : \A y \in S : x >= y

\* the sequence listing the integers of S in ascending order
RECURSIVE SortedSeq(_)
SortedSeq(S) ==
    IF S = {} THEN <<>> ELSE <<SetMin(S)>> \o SortedSeq(S \ {SetMin(S)})

\* s[k:] with k a 0-based Python index, 0 <= k
PyTail(s, k) == IF k >= Len(s) THEN <<>> ELSE SubSeq(s, k + 1, Len(s))

\* s[k] with k a 0-based Python index that may be -1 (the last element)
PyAt(s, k) == IF k < 0 THEN s[Len(s) + 1 + k] ELSE s[k + 1]

StrictlyIncreasing(s) == \A i \in 1..(Len(s) - 1) : s[i] < s[i + 1]

\* the index arrays np.nonzero can return: strictly increasing, possibly empty
IndexArrays == {SortedSeq(S) : S \in SUBSET (0..MaxIdx)}

(***************************************************************************)
(* find_limit_for_integration (iterative)                                  *)
(***************************************************************************)
\* a variant that takes a step of 2 for no break
LimitBreakMut(s) == s > 2

\* the test `if s != 1` on the difference with the previous index
LimitBreak(s) == s # 1

\* the for loop; jj is the 0-based loop index, s and oc the loop variables
RECURSIVE LimitLoop(_, _, _, _, _)
LimitLoop(ix, jj, s, oc, b0) ==
    IF jj >= Len(ix) THEN [oc |-> oc, b0 |-> b0]
    ELSE LET v == PyAt(ix, jj)
             d == v - s
         IN  IF LimitBreak(d)
             THEN LimitLoop(ix, jj + 1, v, v,
                            b0 \o <<oc, PyAt(ix, jj - 1)>>)
             ELSE LimitLoop(ix, jj + 1, v, oc, b0)

\* the whole call; b0 is the list the call appends to
FindLimit(ix, b0) ==
    IF Len(ix) = 0
    THEN \* ix_arr.min() of an empty array
         [err |-> "ValueError", b0 |-> b0]
    ELSE LET mn == SetMin(Range(ix))
             r  == LimitLoop(ix, 0, mn - 1, mn, b0)
             v  == PyAt(ix, Len(ix) - 1)
         IN  IF v = PyAt(ix, -1)
             THEN [err |-> "none", b0 |-> r.b0 \o <<r.oc, v>>]
             ELSE [err |-> "none", b0 |-> r.b0]

(***************************************************************************)
(* find_bound_for_integration (recursive)                                  *)
(***************************************************************************)
\* np.arange(ix_arr.min(), len(ix_arr) + ix_arr.min(), 1)
PsDiff(ix) == [i \in 1..Len(ix) |-> SetMin(Range(ix)) + i - 1]

\* a variant with the test diff >= 0, true at every position
ZeroIndexMut(ix) == {i - 1 : i \in 1..Len(ix)}

\* index, = np.where(ix_arr - psdiff == 0), as the set of 0-based positions
ZeroIndex(ix) == {i - 1 : i \in {j \in 1..Len(ix) : ix[j] - PsDiff(ix)[j] = 0}}

\* a variant that resumes one element too far
ArrayInitMut(ix, index) == PyTail(ix, SetMax(index) + 2)

\* array_init = ix_arr[int(max(index)) + 1:]
ArrayInit(ix, index) == PyTail(ix, SetMax(index) + 1)

RECURSIVE FindBound(_, _)
FindBound(ix, b0) ==
    IF Len(ix) = 0
    THEN \* ix_arr.min() of an empty array
         [err |-> "ValueError", b0 |-> b0]
    ELSE LET index == ZeroIndex(ix)
         IN  IF index = {}
             THEN \* min() of an empty selection
                  [err |-> "ValueError", b0 |-> b0]
             ELSE LET sel  == {PyAt(ix, k) : k \in index}
                      b1   == b0 \o <<SetMin(sel), SetMax(sel)>>
                      rest == ArrayInit(ix, index)
                  IN  IF Len(rest) = 0
                      THEN [err |-> "none", b0 |-> b1]
                      ELSE FindBound(rest, b1)

(***************************************************************************)
(* Python and numpy values used by vesDataOperator.                        *)
(*   - a str is a sequence of one-character strings, None is PyNone;       *)
(*   - a resistivity is an integer number of 1/Scale ohm.m, so that a mean *)
(*     or a median of at most MaxLen integers is exact;                    *)
(*   - an array has a dtype, "int" or "float": storing a float into an     *)
(*     int array truncates it.                                             *)
(***************************************************************************)
\* profiles hold at most MaxLen measurements
MaxLen == 4

RECURSIVE Gcd(_, _)
Gcd(a, b) == IF b = 0 THEN a ELSE Gcd(b, a % b)

RECURSIVE LcmUpTo(_)
LcmUpTo(n) == IF n <= 1 THEN 1 ELSE (LcmUpTo(n - 1) * n) \div Gcd(LcmUpTo(n - 1), n)

Scale == LcmUpTo(MaxLen)

PyNone == [kind |-> "None"]

PyStrOf(chars) == [kind |-> "str", chars |-> chars]

\* str(v)
Str(v) == IF v.kind = "None" THEN <<"N", "o", "n", "e">> ELSE v.chars

UpperChars == <<"A", "B", "C", "D", "E", "F", "G", "H", "I", "J", "K", "L", "M",
                "N", "O", "P", "Q", "R", "S", "T", "U", "V", "W", "X", "Y", "Z">>

LowerChars == <<"a", "b", "c", "d", "e", "f", "g", "h", "i", "j", "k", "l", "m",
                "n", "o", "p", "q", "r", "s", "t", "u", "v", "w", "x", "y", "z">>

LowerChar(c) ==
    IF \E i \in 1..Len(UpperChars) : UpperChars[i] = c
    THEN LowerChars[CHOOSE i \in 1..Len(UpperChars) : UpperChars[i] = c]
    ELSE c

\* s.lower()
Lower(s) == [i \in 1..Len(s) |-> LowerChar(s[i])]

StrNone == <<"n", "o", "n", "e">>

StrMean == <<"m", "e", "a", "n">>

StrMedian == <<"m", "e", "d", "i", "a", "n">>

StrLeaveOneOut == <<"l", "e", "a", "v", "e", "o", "n", "e", "o", "u", "t">>

\* a variant without .lower()
TypeofopLowerMut(typeofop) == Str(typeofop)

\* typeofop = str(typeofop).lower()
TypeofopLower(typeofop) == Lower(Str(typeofop))

\* typeofop = 'mean' if typeofop == 'none' else typeofop
TypeofopAlias(t) == IF t = StrNone THEN StrMean ELSE t

\* numpy's cast of the non-negative value v on storing it in an array of dtype t
Cast(t, v) == IF t = "int" THEN (v \div Scale) * Scale ELSE v

RECURSIVE SeqSum(_)
SeqSum(s) == IF Len(s) = 0 THEN 0 ELSE s[1] + SeqSum(Tail(s))

\* s with x inserted, s ascending
RECURSIVE Insert(_, _)
Insert(s, x) ==
    IF Len(s) = 0 THEN <<x>>
    ELSE IF x <= s[1] THEN <<x>> \o s
    ELSE <<s[1]>> \o Insert(Tail(s), x)

RECURSIVE Sort(_)
Sort(s) == IF Len(s) = 0 THEN <<>> ELSE Insert(Sort(Tail(s)), s[1])

\* a.mean()
Mean(a) == SeqSum(a) \div Len(a)

\* np.median(a)
Median(a) ==
    LET t == Sort(a)
        n == Len(a)
    IN  IF n % 2 = 1 THEN t[(n + 1) \div 2]
        ELSE (t[n \div 2] + t[n \div 2 + 1]) \div 2

\* the positions (1-based) i of a with a[i] = d : np.where(a == d)
WhereEq(a, d) == SortedSeq({i \in 1..Len(a) : a[i] = d})

\* a[index] for a sequence of positions
Take(a, index) == [k \in 1..Len(index) |-> a[index[k]]]

\* np.unique(a, return_index=True): the sorted distinct values and, for each,
\* the position (1-based) of its first occurrence
UniqueValues(a) == SortedSeq(Range(a))

UniqueIndex(a) ==
    LET X == UniqueValues(a)
    IN  [j \in 1..Len(X) |-> SetMin({i \in 1..Len(a) : a[i] = X[j]})]

\* dup_values = AB_[~mask], mask true at the first occurrences
DupValues(AB) ==
    LET first == Range(UniqueIndex(AB))
    IN  Take(AB, SortedSeq({i \in 1..Len(AB) : i \notin first}))

\* a variant testing X against AB_ itself, true at every position
MaskRMut(X, dup) == [j \in 1..Len(X) |-> TRUE]

\* maskr = np.isin(X, dup_values, assume_unique=True)
MaskR(X, dup) == [j \in 1..Len(X) |-> X[j] \in Range(dup)]

\* the seeds of np.random.permutation(rhoa_[index])[0], one per entry of
\* dup_values: every sequence of values the draws can yield
Draws(AB, rhoa) ==
    LET dup == DupValues(AB)
    IN  {d \in [1..Len(dup) -> Range(rhoa)] :
            \A ii \in 1..Len(dup) :
                d[ii] \in Range(Take(rhoa, WhereEq(AB, dup[ii])))}

\* the body of the loop `for ii, d in enumerate(dup_values)`: the value
\* stored in d0[ii], an array of the dtype of AB (zeros before the loop)
D0Value(AB, rhoa, abT, typeofop, draw, ii, d) ==
    LET sel == Take(rhoa, WhereEq(AB, d))
    IN  IF typeofop = StrMean THEN Cast(abT, Mean(sel))
        ELSE IF typeofop = StrMedian THEN Cast(abT, Median(sel))
        ELSE IF typeofop = StrLeaveOneOut THEN Cast(abT, draw[ii])
        ELSE 0

\* Y[maskr] = d0 : numpy assigns the values in order to the true positions,
\* broadcasts a single value, and raises on any other length
AssignMasked(Y, maskr, d0, rhoT) ==
    LET pos == SortedSeq({j \in 1..Len(Y) : maskr[j]})
    IN  IF Len(d0) = Len(pos)
        THEN [err |-> "none",
              Y |-> [j \in 1..Len(Y) |->
                       IF maskr[j]
                       THEN Cast(rhoT, d0[CHOOSE k \in 1..Len(pos) : pos[k] = j])
                       ELSE Y[j]]]
        ELSE IF Len(d0) = 1
        THEN [err |-> "none",
              Y |-> [j \in 1..Len(Y) |->
                       IF maskr[j] THEN Cast(rhoT, d0[1]) ELSE Y[j]]]
        ELSE [err |-> "ValueError:assign", Y |-> Y]

\* vesDataOperator(AB, rhoa, typeofop=typeofop), AB of dtype abT and rhoa of
\* dtype rhoT; draw holds the outcomes of the random draws.
\* Line 305, AB_ == dup_values, compares arrays of different lengths: in the
\* numpy the docstring example ran on it yields False with a warning, and
\* its result `indexes` is never read.
VesDataOperator(AB, rhoa, abT, rhoT, typeofop, draw) ==
    LET op == TypeofopLower(typeofop)
    IN  IF op \notin {StrNone, StrMean, StrMedian, StrLeaveOneOut}
        THEN [err |-> "ValueError:typeofop", X |-> <<>>, Y |-> <<>>,
              steps |-> <<"typeofop">>]
        ELSE IF Len(AB) # Len(rhoa)
        THEN [err |-> "VESError:size", X |-> <<>>, Y |-> <<>>,
              steps |-> <<"typeofop", "size">>]
        ELSE LET t      == TypeofopAlias(op)
                 X      == UniqueValues(AB)
                 Y      == Take(rhoa, UniqueIndex(AB))
                 dup    == DupValues(AB)
                 d0     == [ii \in 1..Len(dup) |->
                              D0Value(AB, rhoa, abT, t, draw, ii, dup[ii])]
                 a      == AssignMasked(Y, MaskR(X, dup), d0, rhoT)
             IN  IF a.err = "none"
                 THEN [err |-> "none", X |-> X, Y |-> a.Y,
                       steps |-> <<"typeofop", "size", "reduce">>]
                 ELSE [err |-> a.err, X |-> <<>>, Y |-> <<>>,
                       steps |-> <<"typeofop", "size", "reduce">>]

(***************************************************************************)
(* The arrays of vesDataOperator as objects.  A heap is the sequence of    *)
(* the contents of the arrays allocated so far and an array is named by    *)
(* its position in the heap; the caller's AB and rhoa are the objects 1    *)
(* and 2.  Only the arrays derived from the caller's are followed (mask,   *)
(* dup_values and d0 are allocated by the function and written there).     *)
(***************************************************************************)
\* a variant that hands back the object itself (np.asarray, a view)
CopyMut(heap, id) == [heap |-> heap, id |-> id]

\* np.array(a) and a.copy(): a new object with the contents of a
Copy(heap, id) == [heap |-> Append(heap, heap[id]), id |-> Len(heap) + 1]

\* the contents of the object id replaced by values
Store(heap, id, values) == [heap EXCEPT ![id] = values]

\* a[index] for an index array, and np.unique(a): a copy of a holding the
\* selected values
Select(heap, id, index) ==
    LET c == Copy(heap, id)
    IN  [heap |-> Store(c.heap, c.id, Take(heap[id], index)), id |-> c.id]

\* lines 282-320 on the heap, r being the outcome of the call: AB and rhoa
\* are rebound to copies, AB_ and rhoa_ are copies of those, X and Y are
\* selections of AB_ and rhoa_, and Y[maskr] = d0 writes into Y
VesHeap(AB, rhoa, r) ==
    LET h0     == <<AB, rhoa>>
        ab     == Copy(h0, 1)
        rh     == Copy(ab.heap, 2)
    IN  IF r.err = "ValueError:typeofop" THEN h0
        ELSE IF r.err = "VESError:size" THEN rh.heap
        ELSE LET ab_ == Copy(rh.heap, ab.id)
                 rh_ == Copy(ab_.heap, rh.id)
                 X   == Select(rh_.heap, ab_.id, UniqueIndex(AB))
                 Y   == Select(X.heap, rh_.id, UniqueIndex(AB))
             IN  IF r.err = "none" THEN Store(Y.heap, Y.id, r.Y)
                 ELSE Y.heap

\* the caller's AB and rhoa after the call
CallerArrays(AB, rhoa, r) ==
    [callerAB |-> VesHeap(AB, rhoa, r)[1],
     callerRhoa |-> VesHeap(AB, rhoa, r)[2]]

(***************************************************************************)
(* The bound finders called by a client, b0 given or omitted.              *)
(***************************************************************************)
NoCall == [fn |-> "none"]

InitBounds ==
    /\ phase = "idle"
    /\ input = NoCall
    /\ result = NoCall
    /\ b0Bound = <<>>
    /\ b0Limit = <<>>

\* find_bound_for_integration(ix) : b0 omitted, the default list is used
CallBoundDefault(ix) ==
    /\ phase = "idle"
    /\ Len(b0Bound) + Len(b0Limit) <= MaxAcc
    /\ LET r == FindBound(ix, b0Bound)
       IN  /\ b0Bound' = r.b0
           /\ result' = [fn |-> "find_bound", err |-> r.err,
                         out |-> IF r.err = "none" THEN r.b0 ELSE <<>>]
    /\ input' = [fn |-> "find_bound", ix |-> ix, b0 |-> "omitted"]
    /\ phase' = "returned"
    /\ UNCHANGED b0Limit

\* find_bound_for_integration(ix, b0=[]) : a fresh list is passed
CallBoundFresh(ix) ==
    /\ phase = "idle"
    /\ LET r == FindBound(ix, <<>>)
       IN  result' = [fn |-> "find_bound", err |-> r.err,
                      out |-> IF r.err = "none" THEN r.b0 ELSE <<>>]
    /\ input' = [fn |-> "find_bound", ix |-> ix, b0 |-> "fresh"]
    /\ phase' = "returned"
    /\ UNCHANGED <<b0Bound, b0Limit>>

\* find_limit_for_integration(ix) : b0 omitted, the default list is used
CallLimitDefault(ix) ==
    /\ phase = "idle"
    /\ Len(b0Bound) + Len(b0Limit) <= MaxAcc
    /\ LET r == FindLimit(ix, b0Limit)
       IN  /\ b0Limit' = r.b0
           /\ result' = [fn |-> "find_limit", err |-> r.err,
                         out |-> IF r.err = "none" THEN r.b0 ELSE <<>>]
    /\ input' = [fn |-> "find_limit", ix |-> ix, b0 |-> "omitted"]
    /\ phase' = "returned"
    /\ UNCHANGED b0Bound

\* find_limit_for_integration(ix, b0=[]) : a fresh list is passed
CallLimitFresh(ix) ==
    /\ phase = "idle"
    /\ LET r == FindLimit(ix, <<>>)
       IN  result' = [fn |-> "find_limit", err |-> r.err,
                      out |-> IF r.err = "none" THEN r.b0 ELSE <<>>]
    /\ input' = [fn |-> "find_limit", ix |-> ix, b0 |-> "fresh"]
    /\ phase' = "returned"
    /\ UNCHANGED <<b0Bound, b0Limit>>

\* the client drops the outcome and is ready for the next call
Return ==
    /\ phase = "returned"
    /\ phase' = "idle"
    /\ input' = NoCall
    /\ result' = NoCall
    /\ UNCHANGED <<b0Bound, b0Limit>>

Next ==
    \/ \E ix \in IndexArrays : CallBoundDefault(ix)
    \/ \E ix \in IndexArrays : CallBoundFresh(ix)
    \/ \E ix \in IndexArrays : CallLimitDefault(ix)
    \/ \E ix \in IndexArrays : CallLimitFresh(ix)
    \/ Return

Spec == InitBounds /\ [][Next]_vars

(***************************************************************************)
(* vesDataOperator called on a profile.                                    *)
(***************************************************************************)
\* AB spacings and apparent resistivities (ohm.m) of the profiles explored
PosVals == {10, 20}

RhoVals == {90, 111}

DTypes == {"int", "float"}

MaxMismatch == 2

SeqsOfLen(S, n) == [1..n -> S]

TypeofopVals ==
    {PyNone,
     PyStrOf(<<"m", "e", "a", "n">>),
     PyStrOf(<<"M", "e", "d", "i", "a", "n">>),
     PyStrOf(<<"l", "e", "a", "v", "e", "O", "n", "e", "O", "u", "t">>),
     PyStrOf(<<"M", "a", "x">>)}

\* a call: AB and rhoa as passed (rh in ohm.m), their dtypes, typeofop
VesInput(ab, rh, at, rt, op) ==
    [fn |-> "vesDataOperator", AB |-> ab,
     rhoa |-> [i \in 1..Len(rh) |-> rh[i] * Scale],
     abT |-> at, rhoT |-> rt, typeofop |-> op]

\* the calls explored: AB and rhoa of equal length, or, for AB shorter than
\* MaxMismatch, rhoa one value longer
InitVes ==
    /\ phase = "idle"
    /\ \E n \in 0..MaxLen :
       \E ab \in SeqsOfLen(PosVals, n) :
       \E rh \in SeqsOfLen(RhoVals, n) \cup
                 (IF n < MaxMismatch THEN SeqsOfLen(RhoVals, n + 1) ELSE {}) :
       \E at \in DTypes, rt \in DTypes, op \in TypeofopVals :
           input = VesInput(ab, rh, at, rt, op)
    /\ result = NoCall
    /\ b0Bound = <<>>
    /\ b0Limit = <<>>

\* the outcomes of the random draws a call can see
DrawsOf(in) ==
    IF Len(in.AB) = Len(in.rhoa) /\ TypeofopLower(in.typeofop) = StrLeaveOneOut
    THEN Draws(in.AB, in.rhoa)
    ELSE {<<>>}

CallVes ==
    /\ phase = "idle"
    /\ input.fn = "vesDataOperator"
    /\ \E draw \in DrawsOf(input) :
         LET r == VesDataOperator(input.AB, input.rhoa, input.abT,
                                  input.rhoT, input.typeofop, draw)
         IN  result' = [fn |-> "vesDataOperator", err |-> r.err,
                        X |-> r.X, Y |-> r.Y, steps |-> r.steps]
                          @@ CallerArrays(input.AB, input.rhoa, r)
    /\ phase' = "returned"
    /\ UNCHANGED <<input, b0Bound, b0Limit>>

NextVes == CallVes

SpecVes == InitVes /\ [][NextVes]_vars

(***************************************************************************)
(* ohmicArea.                                                              *)
(*                                                                         *)
(* The polynomial fits (np.polyfit) and the quadrature (scipy quad) are    *)
(* library calls on floats; the model takes their outcomes as inputs:      *)
(*   - posIdx, the grid indices where the residual b45_projected -         *)
(*     f_rhotl(xx) is > 0 (array_masked.nonzero() drops the masked, < 0,   *)
(*     and the zero entries);                                              *)
(*   - quadOut, the (value, error) pair quad returns for each interval.    *)
(* The grid xx has NGrid points instead of 1000. The key depth is held in  *)
(* half metres (X.max()/2 is exact) and a root in 1/(NGrid-1) metres.      *)
(* objective is left at its default 'ohmS'.                                *)
(***************************************************************************)
\* the points of the grid xx = np.linspace(oB.min(), oB.max(), ...)
NGrid == 4

\* the measurements of a profile given to ohmicArea
MaxOhmLen == 4

OhmPosVals == {0, 10, 20}

\* what quad can return for one interval: value (ohm.m2) and error estimate
QuadOuts == {[values |-> 0 - 2, err |-> 1], [values |-> 0, err |-> 0],
             [values |-> 3, err |-> 1]}

\* ohmSkey as passed: a number of metres, None, or a value float() rejects
KeyNum(v) == [kind |-> "num", v |-> v]

KeyNone == [kind |-> "None"]

KeyBad == [kind |-> "bad"]

\* lines 528-534: the key depth in half metres
ParseKey(ohmSkey, X) ==
    IF ohmSkey.kind = "bad" THEN [err |-> "ValueError:ohmSkey", key2 |-> 0]
    ELSE IF ohmSkey.kind = "None"
    THEN IF Len(X) = 0
         THEN \* X.max() of an empty array, inside the try
              [err |-> "ValueError:ohmSkey", key2 |-> 0]
         ELSE [err |-> "none", key2 |-> SetMax(Range(X))]
    ELSE [err |-> "none", key2 |-> 2 * ohmSkey.v]

\* the test `if ohmSkey >= X.max()`
KeyTooDeep(key2, X) == key2 >= 2 * SetMax(Range(X))

Abs(x) == IF x < 0 THEN 0 - x ELSE x

\* oIx = np.argmin(np.abs(X - ohmSkey)), a 0-based index
ArgminAbs(X, key2) ==
    LET d(j) == Abs(2 * X[j] - key2)
    IN  SetMin({j \in 1..Len(X) : \A k \in 1..Len(X) : d(j) <= d(k)}) - 1

\* xx[i], i 0-based, in 1/(NGrid-1) metres
GridPoint(oB, i) ==
    LET lo == SetMin(Range(oB))
        hi == SetMax(Range(oB))
    IN  lo * (NGrid - 1) + i * (hi - lo)

\* the index sets the residual can have. The basement curve is
\* sin(45 deg) * x + f_rhotl(ohmSkey): where the grid starts at the key depth,
\* the residual at index 0 is sin(45 deg) * ohmSkey; on a grid of one
\* repeated point all the residuals are equal.
PosIdxSets(oB, key2) ==
    {S \in SUBSET (0..(NGrid - 1)) :
        /\ (2 * SetMin(Range(oB)) = key2 => (0 \in S <=> key2 > 0))
        /\ (SetMin(Range(oB)) = SetMax(Range(oB))
               => S \in {{}, 0..(NGrid - 1)})}

\* lines 569-573: the recursive finder, and on any exception the iterative one
IntegrationBounds(indexes) ==
    LET r == FindBound(indexes, <<>>)
    IN  IF r.err = "none" THEN r ELSE FindLimit(indexes, <<>>)

\* a variant pairing every root with the next one
PairwiseRMut(roots) ==
    [k \in 1..(Len(roots) - 1) |-> SubSeq(roots, k, k + 1)]

\* pairwise_r: np.split(roots, len(roots)//2) if len(roots) > 2 else [roots]
PairwiseR(roots) ==
    IF Len(roots) > 2
    THEN [k \in 1..(Len(roots) \div 2) |-> SubSeq(roots, 2 * k - 1, 2 * k)]
    ELSE <<roots>>

\* a variant that keeps a negative integral
ClampMut(values) == values

\* ohmS[ii] = np.zeros((1,)) if values < 0 else values
Clamp(values) == IF values < 0 THEN 0 ELSE values

\* the curves of ohmicArea, named by the call that builds them: the
\* polynomial f of fitfunc(x, y), the line of dummy_basement_curve(func, ks)
\* (ks in half metres) and the difference a - b of two curves
FitCurve(x, y) == [kind |-> "fitfunc", x |-> x, y |-> y]

BasementCurve(func, ks2) ==
    [kind |-> "dummy_basement_curve", func |-> func, ks2 |-> ks2]

Difference(a, b) == [minuend |-> a, subtrahend |-> b]

\* lines 543-577: the difference sampled on the grid to locate the roots,
\* diff_arr = f_brl(xx) - f_rhotl(xx), and the function handed to quad,
\* ff = f45 - f_rhotl with f45 the fit of the profile from oIx on
OhmCurves(X, Y, key2) ==
    LET f_rhotl == FitCurve(X, Y)
        oIx     == ArgminAbs(X, key2)
        f_brl   == BasementCurve(f_rhotl, key2)
        f45     == FitCurve(PyTail(X, oIx), PyTail(Y, oIx))
    IN  [residual |-> Difference(f_brl, f_rhotl),
         integrand |-> Difference(f45, f_rhotl)]

\* the outcome of a call that raised e after the stages st
OhmFail(e, st) ==
    [err |-> e, ohmS |-> <<>>, err_ohmS |-> <<>>, roots |-> <<>>,
     quad |-> <<>>, steps |-> st]

\* lines 526-538, v being the outcome of vesDataOperator(data=data): the
\* key depth is parsed and checked against X.max()
KeyStage(v, ohmSkey) ==
    IF v.err # "none" THEN [err |-> v.err, key2 |-> 0, steps |-> <<"reduce">>]
    ELSE LET k == ParseKey(ohmSkey, v.X)
         IN  IF k.err # "none"
             THEN [err |-> k.err, key2 |-> 0, steps |-> <<"reduce", "ohmSkey">>]
             ELSE IF Len(v.X) = 0
             THEN \* X.max() of an empty array
                  [err |-> "ValueError", key2 |-> 0,
                   steps |-> <<"reduce", "ohmSkey">>]
             ELSE IF KeyTooDeep(k.key2, v.X)
             THEN [err |-> "VESError:ohmSkey", key2 |-> k.key2,
                   steps |-> <<"reduce", "ohmSkey">>]
             ELSE [err |-> "none", key2 |-> k.key2,
                   steps |-> <<"reduce", "ohmSkey">>]

\* lines 575-589, ib being the bounds found on the grid over oB and quadOut
\* the outcomes of quad: roots, pairs of roots, clamped integrals, sum
AreaStage(oB, ib, quadOut, sum) ==
    LET st == <<"reduce", "ohmSkey", "fit", "bounds">>
    IN  IF ib.err # "none" THEN OhmFail(ib.err, st)
        ELSE LET roots == [j \in 1..Len(ib.b0) |-> GridPoint(oB, ib.b0[j])]
                 n     == Len(PairwiseR(roots))
             IN  IF \E ii \in 1..n : Len(PairwiseR(roots)[ii]) # 2
                 THEN \* for ii, (inf, sup) in enumerate(pairwise_r)
                      OhmFail("ValueError", st \o <<"fit", "quad">>)
                 ELSE [err |-> "none",
                       ohmS |-> IF sum
                                THEN SeqSum([ii \in 1..n |->
                                               Clamp(quadOut[ii].values)])
                                ELSE [ii \in 1..n |-> Clamp(quadOut[ii].values)],
                       err_ohmS |-> [ii \in 1..n |-> quadOut[ii].err],
                       roots |-> roots,
                       quad |-> [ii \in 1..n |-> quadOut[ii].values],
                       steps |-> st \o <<"fit", "quad">>]

\* the resistivity recorded with the i-th measurement of a profile
OhmRho(i) == IF i % 2 = 1 THEN 90 * Scale ELSE 111 * Scale

OhmKeys == {KeyNum(0), KeyNum(10), KeyNum(15), KeyNum(20), KeyNone, KeyBad}

InitOhm ==
    /\ phase = "idle"
    /\ \E n \in 0..MaxOhmLen :
       \E ab \in SeqsOfLen(OhmPosVals, n) :
       \E key \in OhmKeys, sm \in BOOLEAN :
           input = [fn |-> "ohmicArea", AB |-> ab,
                    rhoa |-> [i \in 1..n |-> OhmRho(i)],
                    ohmSkey |-> key, sum |-> sm]
    /\ result = NoCall
    /\ b0Bound = <<>>
    /\ b0Limit = <<>>

\* the call failed before the fit
OhmRaise(v, k) ==
    /\ k.err # "none"
    /\ result' = [fn |-> "ohmicArea"] @@ OhmFail(k.err, k.steps)
                    @@ CallerArrays(input.AB, input.rhoa, v)

\* the call went on to the fits, the bounds and the integration. The stages
\* are bound one after the other: the reduced profile oB after the key
\* depth, the residual pattern of its grid, the bounds, the quad outcomes.
OhmProceed(v, k) ==
    /\ k.err = "none"
    /\ \E oB \in {PyTail(v.X, ArgminAbs(v.X, k.key2))} :
       \E posIdx \in PosIdxSets(oB, k.key2) :
       \E ib \in {IntegrationBounds(SortedSeq(posIdx))} :
       \E quadOut \in [1..Len(PairwiseR(ib.b0)) -> QuadOuts] :
           result' = [fn |-> "ohmicArea"]
                        @@ AreaStage(oB, ib, quadOut, input.sum)
                        @@ OhmCurves(v.X, v.Y, k.key2)
                        @@ CallerArrays(input.AB, input.rhoa, v)

\* ohmicArea(data, ohmSkey, sum), data holding AB and rhoa: the whole call.
\* In the outcome, steps lists the stages the call went through and quad
\* records the raw integrals.
CallOhm ==
    /\ phase = "idle"
    /\ input.fn = "ohmicArea"
    /\ \E v \in {VesDataOperator(input.AB, input.rhoa, "float", "float",
                                 PyNone, <<>>)} :
       \E k \in {KeyStage(v, input.ohmSkey)} :
           OhmRaise(v, k) \/ OhmProceed(v, k)
    /\ phase' = "returned"
    /\ UNCHANGED <<input, b0Bound, b0Limit>>

NextOhm == CallOhm

SpecOhm == InitOhm /\ [][NextOhm]_vars

(***************************************************************************)
(* Properties of the bound finders (specification Spec).                   *)
(***************************************************************************)
ReturnedFrom(fns) == phase = "returned" /\ input.fn \in fns

Finders == {"find_bound", "find_limit"}

\* every step between two entries of ix is 1
Contiguous(ix) == \A i \in 1..(Len(ix) - 1) : ix[i + 1] = ix[i] + 1

\* C3 (as claimed): an empty index array is a valid input of the two bound
\* finders: the call returns, and returns the empty list.
C3_EmptyIndexReturnsEmpty ==
    (ReturnedFrom(Finders) /\ input.ix = <<>>)
        => (result.err = "none" /\ result.out = <<>>)

\* C4 (as claimed): a call that omits b0 returns the bounds of its own ix and
\* nothing accumulated by earlier calls, so that repeating it returns the
\* same list.
C4_CallsIndependent ==
    (ReturnedFrom(Finders) /\ input.b0 = "omitted" /\ result.err = "none")
        => result.out = (IF input.fn = "find_bound"
                         THEN FindBound(input.ix, <<>>).b0
                         ELSE FindLimit(input.ix, <<>>).b0)

\* C5 (as claimed): find_bound_for_integration with a fresh accumulator on a
\* strictly increasing index array returns exactly one pair, (min, max).
C5_OnePairMinMax ==
    (ReturnedFrom({"find_bound"}) /\ input.b0 = "fresh" /\ input.ix # <<>>)
        => (/\ result.err = "none"
            /\ result.out = <<input.ix[1], input.ix[Len(input.ix)]>>)

\* C5 (amended): on a non-empty strictly increasing index array the result
\* starts at min and ends at max, and it is the single pair (min, max)
\* exactly when the array has no gap (consecutive integers).
C5_OnePairIffContiguous ==
    (ReturnedFrom({"find_bound"}) /\ input.b0 = "fresh" /\ input.ix # <<>>)
        => (/\ result.err = "none"
            /\ Len(result.out) >= 2
            /\ result.out[1] = input.ix[1]
            /\ result.out[Len(result.out)] = input.ix[Len(input.ix)]
            /\ (Contiguous(input.ix)
                  <=> result.out = <<input.ix[1], input.ix[Len(input.ix)]>>))

C5_Witness ==
    /\ ReturnedFrom({"find_bound"}) /\ input.b0 = "fresh"
    /\ Len(input.ix) >= 3 /\ Contiguous(input.ix)
    /\ result.out = <<input.ix[1], input.ix[Len(input.ix)]>>

\* C6: on a non-empty strictly increasing array of non-negative indices the
\* recursive and the iterative finder, each with a fresh accumulator, return
\* the same list of bounds.
C6_RecursiveEqualsIterative ==
    (ReturnedFrom(Finders) /\ input.b0 = "fresh" /\ input.ix # <<>>)
        => LET other == IF input.fn = "find_bound"
                        THEN FindLimit(input.ix, <<>>)
                        ELSE FindBound(input.ix, <<>>)
           IN  /\ result.err = "none"
               /\ other.err = "none"
               /\ result.out = other.b0

C6_Witness ==
    /\ ReturnedFrom({"find_limit"}) /\ input.b0 = "fresh"
    /\ ~Contiguous(input.ix)
    /\ result.err = "none" /\ Len(result.out) = 4

(***************************************************************************)
(* Properties of vesDataOperator (specification SpecVes).                  *)
(***************************************************************************)
\* the positions (1-based) of the measurements taken at spacing p
At(AB, p) == {i \in 1..Len(AB) : AB[i] = p}

\* the call reached the reduction: valid typeofop, arrays of equal length
Reducing ==
    /\ ReturnedFrom({"vesDataOperator"})
    /\ result.err \notin {"ValueError:typeofop", "VESError:size"}

\* C7 (as claimed): however often a spacing is repeated, the call returns
\* one entry per distinct spacing, spacings ascending, and a spacing measured
\* once keeps its resistivity.
C7_OneEntryPerPosition ==
    Reducing
        => (/\ result.err = "none"
            /\ StrictlyIncreasing(result.X)
            /\ Range(result.X) = Range(input.AB)
            /\ Len(result.Y) = Len(result.X)
            /\ \A j \in 1..Len(result.X) :
                 \A i \in 1..Len(input.AB) :
                   At(input.AB, result.X[j]) = {i}
                       => result.Y[j] = input.rhoa[i])

\* the aggregate the mode asks for, of the resistivities measured at p
ExactAggregate(in, p) ==
    LET sel == Take(in.rhoa, SortedSeq(At(in.AB, p)))
    IN  IF TypeofopAlias(TypeofopLower(in.typeofop)) = StrMedian
        THEN Median(sel) ELSE Mean(sel)

\* C8 (as claimed): with mode mean (median), whenever the call returns, the
\* resistivity at every repeated spacing is the mean (median) of all the
\* resistivities measured at that spacing, whatever the order of the
\* spacings and the dtype of AB (rhoa being a float array, which can hold
\* the aggregate).
C8_AggregateAtDuplicates ==
    (/\ ReturnedFrom({"vesDataOperator"}) /\ result.err = "none"
     /\ input.rhoT = "float"
     /\ TypeofopAlias(TypeofopLower(input.typeofop)) \in {StrMean, StrMedian})
        => \A j \in 1..Len(result.X) :
             Cardinality(At(input.AB, result.X[j])) > 1
                 => result.Y[j] = ExactAggregate(input, result.X[j])

\* C9: whenever the call returns, calling vesDataOperator on its output with
\* the same mode (and any outcome of the random draws) returns that output.
C9_Idempotent ==
    (ReturnedFrom({"vesDataOperator"}) /\ result.err = "none")
        => \A draw \in Draws(result.X, result.Y) :
             LET again == VesDataOperator(result.X, result.Y, input.abT,
                                          input.rhoT, input.typeofop, draw)
             IN  /\ again.err = "none"
                 /\ again.X = result.X
                 /\ again.Y = result.Y

C9_Witness ==
    /\ ReturnedFrom({"vesDataOperator"}) /\ result.err = "none"
    /\ Len(input.AB) >= 3
    /\ Len(result.X) = 2
    /\ TypeofopLower(input.typeofop) = StrMedian

\* the character c in upper case
UpperChar(c) ==
    IF \E i \in 1..Len(LowerChars) : LowerChars[i] = c
    THEN UpperChars[CHOOSE i \in 1..Len(LowerChars) : LowerChars[i] = c]
    ELSE c

\* s spells the lower-case word w, in any mix of cases
Spells(s, w) ==
    /\ Len(s) = Len(w)
    /\ \A i \in 1..Len(w) : s[i] = w[i] \/ s[i] = UpperChar(w[i])

ModeAccepted(typeofop) ==
    \E w \in {StrNone, StrMean, StrMedian, StrLeaveOneOut} :
        Spells(Str(typeofop), w)

\* C10: the call raises the invalid-mode error exactly when the mode, in any
\* mix of cases, is none of mean, median, leaveoneout, none; it raises it
\* before the data is looked at (also when the arrays differ in length); and
\* mode None gives the outcome of mode 'mean'.
C10_ModeValidation ==
    ReturnedFrom({"vesDataOperator"})
        => (/\ (result.err = "ValueError:typeofop"
                  <=> ~ModeAccepted(input.typeofop))
            /\ (~ModeAccepted(input.typeofop)
                  => result.steps = <<"typeofop">>)
            /\ (input.typeofop = PyNone
                  => LET m == VesDataOperator(input.AB, input.rhoa, input.abT,
                                              input.rhoT, PyStrOf(StrMean), <<>>)
                     IN  /\ result.err = m.err
                         /\ result.X = m.X
                         /\ result.Y = m.Y))

C10_Witness ==
    /\ ReturnedFrom({"vesDataOperator"}) /\ result.err = "none"
    /\ input.typeofop = PyStrOf(<<"M", "e", "d", "i", "a", "n">>)
    /\ Len(input.AB) > Len(result.X)

(***************************************************************************)
(* Properties of ohmicArea (specification SpecOhm).                        *)
(***************************************************************************)
\* C1: whenever ohmicArea returns, every per-interval area of ohmS is >= 0
\* and is 0 where the integral came out negative; with sum=True the total
\* is >= 0.
C1_NonNegativeArea ==
    (ReturnedFrom({"ohmicArea"}) /\ result.err = "none")
        => IF input.sum
           THEN result.ohmS >= 0
           ELSE /\ Len(result.ohmS) = Len(result.quad)
                /\ \A ii \in 1..Len(result.ohmS) :
                     /\ result.ohmS[ii] >= 0
                     /\ (result.quad[ii] < 0 => result.ohmS[ii] = 0)
                     /\ (result.quad[ii] >= 0
                            => result.ohmS[ii] = result.quad[ii])

C1_Witness ==
    /\ ReturnedFrom({"ohmicArea"}) /\ result.err = "none" /\ ~input.sum
    /\ Len(result.ohmS) = 2
    /\ result.quad[1] < 0 /\ result.ohmS[1] = 0
    /\ result.ohmS[2] > 0

\* C2 (as claimed): for a numeric key depth and a non-empty profile,
\* ohmicArea raises the key-depth VESError exactly when
\* ohmSkey >= max(positions), and raises it before any fit.
C2_KeyDepthError ==
    (ReturnedFrom({"ohmicArea"}) /\ input.ohmSkey.kind = "num"
     /\ input.AB # <<>>)
        => (/\ (input.ohmSkey.v >= SetMax(Range(input.AB))
                  <=> result.err = "VESError:ohmSkey")
            /\ (result.err = "VESError:ohmSkey"
                  => "fit" \notin Range(result.steps)))

(***************************************************************************)
(* shape: the shape of an anomaly from the conductive zone cz and the      *)
(* station s.  A station is the Ellipsis object (the default of s), None   *)
(* or an integer index.  np.median is kept exact as twice its value.       *)
(***************************************************************************)
\* a conductive zone holds 1..MaxZone values
MaxZone == 7
\* the zone is rescaled by the factors 2..MaxScale
MaxScale == 3

PyEllipsis == [kind |-> "Ellipsis"]

PyInt(n) == [kind |-> "int", v |-> n]

\* cz[:e] with e a 0-based Python index, 0 <= e
PyHead(cz, e) == IF e >= Len(cz) THEN cz ELSE SubSeq(cz, 1, e)

\* a variant that returns the position of the maximum
ArgminMut(cz) == (CHOOSE i \in 1..Len(cz) : \A j \in 1..Len(cz) : cz[j] <= cz[i]) - 1

\* np.argmin(cz): the 0-based position of the first minimum
Argmin(cz) ==
    (CHOOSE i \in 1..Len(cz) :
        /\ \A j \in 1..Len(cz) : cz[i] <= cz[j]
        /\ \A j \in 1..(i - 1) : cz[j] > cz[i]) - 1

\* `if s is (None or ...)`: the operand (None or ...) is the Ellipsis object
IsNoneOrEllipsis(s) == s = PyEllipsis

\* the station position index; None takes neither branch and leaves
\* s_index unbound, which the test `s_index >= len(cz)` then reads
StationIndex(cz, s) ==
    IF IsNoneOrEllipsis(s) THEN [err |-> "none", v |-> Argmin(cz)]
    ELSE IF s # PyNone THEN [err |-> "none", v |-> s.v]
    ELSE [err |-> "UnboundLocalError", v |-> 0]

\* argrelextrema(a, np.less): positions strictly below both neighbours
\* (mode 'clip' compares an end point with itself, so it never counts)
ArgRelMin(a) == {i \in 2..(Len(a) - 1) : a[i] < a[i - 1] /\ a[i] < a[i + 1]}

\* argrelextrema(a, np.greater)
ArgRelMax(a) == {i \in 2..(Len(a) - 1) : a[i] > a[i - 1] /\ a[i] > a[i + 1]}

\* twice np.median(cz)
Median2(cz) ==
    LET t == Sort(cz)
        n == Len(cz)
    IN  IF n % 2 = 1 THEN 2 * t[(n + 1) \div 2]
        ELSE t[n \div 2] + t[n \div 2 + 1]

\* the value of the Python expression (ls and rs)
AndValue(ls, rs) == IF ls = 0 THEN ls ELSE rs

\* a variant that asks for a local maximum on both sides
RowMMut(nmaxl, nmaxr) == nmaxl >= 1 /\ nmaxr >= 1

\* the test of the M row
RowM(nmaxl, nmaxr) ==
    (nmaxl >= 1 /\ nmaxr >= 0) \/ (nmaxl <= 0 /\ nmaxr >= 1)

\* a variant that ignores the other side
RowHMut(nminl, nminr) == nminl = 1 \/ nminr = 1

\* the test of the H row
RowH(nminl, nminr) ==
    (nminl = 0 /\ nminr = 1) \/ (nminr = 0 /\ nminl = 1)

\* the decision table; ls, rs are the end values, med2 twice the median and
\* n.. the numbers of local minima and maxima of the left and right sides
ShapeTable(ls, rs, med2, nminl, nminr, nmaxl, nmaxr) ==
    IF (2 * ls >= med2 /\ 2 * rs < med2) \/ (2 * ls < med2 /\ 2 * rs >= med2)
    THEN IF nminl = 0 /\ nminr = 0 THEN "C"
         ELSE IF (nminl = 0 /\ nminr # 0) \/ (nminl # 0 /\ nminr = 0) THEN "K"
         ELSE "V"
    ELSE IF 2 * AndValue(ls, rs) > med2
    THEN IF nminl = 0 /\ nminr = 0 THEN "U"
         ELSE IF RowH(nminl, nminr) THEN "H"
         ELSE IF nminl >= 1 /\ nminr >= 1 THEN "W"
         ELSE "V"
    ELSE IF 2 * ls < med2 /\ 2 * rs < med2
    THEN IF RowM(nmaxl, nmaxr) THEN "M" ELSE "V"
    ELSE "V"

\* the two sides cz[:s_index+1] and cz[s_index:] and what shape reads of them
Sides(cz, s_index) ==
    [ls    |-> PyHead(cz, s_index + 1)[1],
     rs    |-> PyAt(PyTail(cz, s_index), -1),
     nminl |-> Cardinality(ArgRelMin(PyHead(cz, s_index + 1))),
     nminr |-> Cardinality(ArgRelMin(PyTail(cz, s_index))),
     nmaxl |-> Cardinality(ArgRelMax(PyHead(cz, s_index + 1))),
     nmaxr |-> Cardinality(ArgRelMax(PyTail(cz, s_index)))]

ShapeRaise(e) ==
    [err |-> e, shape |-> "", s_index |-> -1, ls |-> 0, rs |-> 0, med2 |-> 0,
     nminl |-> 0, nminr |-> 0, nmaxl |-> 0, nmaxr |-> 0]

\* shape(cz, s) as the outcome of the call; with the letter it keeps the
\* local values the letter was decided from
Shape(cz, s) ==
    LET ix == StationIndex(cz, s)
    IN  IF ix.err # "none" THEN ShapeRaise(ix.err)
        ELSE IF ix.v >= Len(cz) THEN ShapeRaise("StationError")
        ELSE LET d    == Sides(cz, ix.v)
                 med2 == Median2(cz)
             IN  [err |-> "none",
                  shape |-> ShapeTable(d.ls, d.rs, med2, d.nminl, d.nminr,
                                       d.nmaxl, d.nmaxr),
                  s_index |-> ix.v, ls |-> d.ls, rs |-> d.rs, med2 |-> med2,
                  nminl |-> d.nminl, nminr |-> d.nminr,
                  nmaxl |-> d.nmaxl, nmaxr |-> d.nmaxr]

\* a variant that divides, truncating
ScaleZoneMut(cz, k) == [i \in 1..Len(cz) |-> cz[i] \div k]

\* k * cz
ScaleZone(cz, k) == [i \in 1..Len(cz) |-> k * cz[i]]

(***************************************************************************)
(* shape called by a client on a zone, then on the rescaled zone.          *)
(***************************************************************************)
ZoneVals == {0, 1, 2}

\* the zone of the documented example
ExampleZone == <<60, 70, 65, 40, 30, 31, 34, 40, 38, 50, 61, 90>>

\* the stations a zone of n values is classified at: omitted, None, and
\* every index 0..n (n itself is out of range)
Stations(n) == {PyEllipsis, PyNone} \cup {PyInt(i) : i \in 0..n}

InitShape ==
    /\ phase = "idle"
    /\ result = NoCall
    /\ b0Bound = <<>>
    /\ b0Limit = <<>>
    /\ \/ \E n \in 1..MaxZone : \E cz \in SeqsOfLen(ZoneVals, n) :
            \E s \in Stations(n) :
               input = [fn |-> "shape", cz |-> cz, s |-> s]
       \/ \E s \in {PyEllipsis, PyNone} :
               input = [fn |-> "shape", cz |-> ExampleZone, s |-> s]

CallShape ==
    /\ phase = "idle"
    /\ input.fn = "shape"
    /\ \E r \in {Shape(input.cz, input.s)} :
         result' = [fn |-> "shape", k |-> 1, out |-> r, first |-> r]
    /\ phase' = "returned"
    /\ UNCHANGED <<input, b0Bound, b0Limit>>

\* shape(k * cz, s) after shape(cz, s)
CallShapeScaled(k) ==
    /\ phase = "returned"
    /\ result.fn = "shape"
    /\ \E r \in {Shape(ScaleZone(input.cz, k), input.s)} :
         result' = [fn |-> "shape", k |-> k, out |-> r, first |-> result.out]
    /\ phase' = "rescaled"
    /\ UNCHANGED <<input, b0Bound, b0Limit>>

NextShape == CallShape \/ \E k \in 2..MaxScale : CallShapeScaled(k)

SpecShape == InitShape /\ [][NextShape]_vars

(***************************************************************************)
(* Properties of shape (specification SpecShape).                          *)
(***************************************************************************)
\* shape(cz, s) or shape(k * cz, s) has returned a letter
ShapeReturned ==
    /\ phase \in {"returned", "rescaled"}
    /\ result.fn = "shape"
    /\ result.out.err = "none"

Letters == {"V", "U", "W", "M", "K", "C", "H"}

\* C11 (as claimed): shape returns U, H or W only when both end values are
\* strictly greater than the median of the zone.
C11_UHWOnlyAboveMedian ==
    (ShapeReturned /\ result.out.shape \in {"U", "H", "W"})
        => (/\ 2 * result.out.ls > result.out.med2
            /\ 2 * result.out.rs > result.out.med2)

\* C12: when exactly one end value is >= the median and the other is below
\* it, shape returns C if neither side has a strict local minimum, K if
\* exactly one side has at least one and V otherwise; when both end values
\* are below the median it returns M if at least one side has a strict
\* local maximum and V otherwise.
C12_CKVAndMRows ==
    ShapeReturned =>
        LET o    == result.out
            d    == Sides(ScaleZone(input.cz, result.k), o.s_index)
            med2 == Median2(ScaleZone(input.cz, result.k))
            lge  == 2 * d.ls >= med2
            rge  == 2 * d.rs >= med2
        IN  /\ (lge # rge) =>
                 o.shape = IF d.nminl = 0 /\ d.nminr = 0 THEN "C"
                           ELSE IF (d.nminl = 0) # (d.nminr = 0) THEN "K"
                           ELSE "V"
            /\ (~lge /\ ~rge) =>
                 o.shape = IF d.nmaxl >= 1 \/ d.nmaxr >= 1 THEN "M" ELSE "V"

C12_Witness ==
    /\ ShapeReturned /\ phase = "returned"
    /\ input.s \in {PyInt(i) : i \in 0..MaxZone}
    /\ result.out.shape = "M"
    /\ result.out.nmaxl = 0 /\ result.out.nmaxr >= 1
    /\ 2 * result.out.ls < result.out.med2
    /\ 2 * result.out.rs < result.out.med2

\* both end values strictly above the median
BothAbove(o) == 2 * o.ls > o.med2 /\ 2 * o.rs > o.med2

\* C13 (as claimed): with both end values above the median, shape returns H
\* whenever exactly one side has exactly one strict local minimum, whatever
\* the number of local minima of the other side.
C13_HWhenOneSideHasOne ==
    (ShapeReturned /\ BothAbove(result.out)
     /\ ((result.out.nminl = 1) # (result.out.nminr = 1)))
        => result.out.shape = "H"

\* C13 (amended): with both end values above the median, shape returns H
\* exactly when one side has exactly one strict local minimum and the other
\* side has none; with one local minimum on one side and two or more on the
\* other it returns W.
C13_HOnlyWhenOtherSideHasNone ==
    (ShapeReturned /\ BothAbove(result.out)) =>
        LET o == result.out
        IN  /\ (o.shape = "H") <=> (\/ o.nminl = 1 /\ o.nminr = 0
                                    \/ o.nminl = 0 /\ o.nminr = 1)
            /\ (o.nminl >= 1 /\ o.nminr >= 1) => o.shape = "W"

C13_Witness ==
    /\ ShapeReturned /\ phase = "returned" /\ BothAbove(result.out)
    /\ result.out.nminl = 2 /\ result.out.nminr = 1
    /\ result.out.shape = "W"

\* C14: shape(k * cz, s) has the outcome of shape(cz, s) for every factor
\* k > 0.
C14_ScaleInvariant ==
    (phase = "rescaled" /\ result.fn = "shape")
        => (/\ result.out.err = result.first.err
            /\ result.out.shape = result.first.shape)

C14_Witness ==
    /\ phase = "rescaled" /\ result.fn = "shape" /\ result.k = 3
    /\ result.out.err = "none"
    /\ result.out.shape = "H" /\ result.first.shape = "H"
    /\ result.out.med2 = 3 * result.first.med2
    /\ result.first.med2 % 2 = 1

\* the documented example zone classified with no station given
ExampleClassified ==
    /\ phase = "returned" /\ result.fn = "shape"
    /\ input.cz = ExampleZone /\ input.s = PyEllipsis

\* C15 (as claimed): shape applied to the example zone with no station
\* returns U.
C15_ExampleIsU ==
    ExampleClassified => (result.out.err = "none" /\ result.out.shape = "U")

\* C15 (amended): shape applied to the example zone with no station returns
\* H: the station is index 4, both end values are above the median 45, the
\* left side has no strict local minimum and the right side has one.
C15_ExampleIsH ==
    ExampleClassified
        => (/\ result.out.err = "none" /\ result.out.shape = "H"
            /\ result.out.s_index = 4 /\ result.out.med2 = 90
            /\ result.out.nminl = 0 /\ result.out.nminr = 1)

C15_Witness ==
    /\ ExampleClassified
    /\ result.out.shape = "H" /\ result.out.ls = 60 /\ result.out.rs = 90

\* C16 (as claimed): with s omitted or None, the reference station is the
\* position of the minimum of the zone and the call returns a letter.
C16_NoStationIsArgmin ==
    (phase = "returned" /\ result.fn = "shape"
     /\ input.s \in {PyEllipsis, PyNone})
        => (/\ result.out.err = "none"
            /\ result.out.s_index = Argmin(input.cz)
            /\ result.out.shape \in Letters)

(***************************************************************************)
(* _type_mechanism and type_: the type of an anomaly from the statuses of  *)
(* the windows of an ERP line.                                             *)
(***************************************************************************)
\* the window length of type_
WindowSize == 7
\* `wcz > 4 * dipolelength`
WidthFactor == 4
\* a profile is made of at most MaxWindows blocks of WindowSize points and
\* a remainder
MaxWindows == 4

\* the 0-based positions where a equals v
WhereIs(a, v) == {i - 1 : i \in {j \in 1..Len(a) : a[j] = v}}

\* status = 'yes' if wcz > 4 * dipolelength else 'no', the width counted in
\* dipole lengths
StatusOf(width) == IF width > WidthFactor THEN "yes" ELSE "no"

\* _type_mechanism(cz)[0]: the first maximum left of the minimum, the last
\* maximum right of it, and the status of the distance between them
TypeMechanism(cz) ==
    LET s_index == Argmin(cz)
        lc  == PyHead(cz, s_index + 1)
        rc  == PyTail(cz, s_index)
        ixl == SetMin(WhereIs(lc, SetMax(Range(lc))))
        ixr == SetMax(WhereIs(rc, SetMax(Range(rc)))) + s_index
    IN  StatusOf(Abs(ixl - ixr))

\* np.split(erp, indices): the sections between consecutive cut points
SplitAt(erp, indices) ==
    [w \in 1..(Len(indices) + 1) |->
        SubSeq(erp,
               (IF w = 1 THEN 0 ELSE indices[w - 1]) + 1,
               IF w = Len(indices) + 1 THEN Len(erp) ELSE indices[w])]

\* np.arange(start, stop, step), step > 0
Arange(start, stop, step) ==
    IF stop <= start THEN <<>>
    ELSE [i \in 1..((stop - start + step - 1) \div step) |->
             start + (i - 1) * step]

\* the windows of type_.  np.split(erp, len(erp)//7) computes
\* len(erp) % (len(erp)//7): a ZeroDivisionError below 7 points, which the
\* handler of ValueError does not catch; an equal division when the length
\* is a multiple of 7; otherwise the handler cuts at
\* np.arange(7, len(erp) - remains, 7)
Windows(erp) ==
    LET n == Len(erp)
        sections == n \div WindowSize
    IN  IF sections = 0 THEN [err |-> "ZeroDivisionError", ssets |-> <<>>]
        ELSE IF n % sections = 0
        THEN [err |-> "none",
              ssets |-> SplitAt(erp, Arange(n \div sections, n,
                                            n \div sections))]
        ELSE LET remains == n % WindowSize
             IN  [err |-> "none",
                  ssets |-> SplitAt(erp, Arange(WindowSize, n - remains,
                                                WindowSize))]

\* the string order of Python on the two statuses
StrLess(a, b) == a = "no" /\ b = "yes"

\* the classification of the statuses.  no_ix is a slice of the statuses
\* themselves, not of their positions: it is compared as strings, and the
\* subtraction no_ix[i] - no_ix[i+1] of two strings raises TypeError
TypeOfStatus(status) ==
    LET vals == Range(status)
    IN  IF Cardinality(vals) = 1
        THEN [err |-> "none", type |-> IF status[1] = "yes" THEN "EC" ELSE "NC"]
        ELSE IF Cardinality(vals) = 2
        THEN LET yes_ix == SortedSeq(WhereIs(status, "yes"))
                 no_ix  == PyTail(status, Len(yes_ix))
                 sort_ix_yes == \A i \in 1..(Len(yes_ix) - 1) :
                                   yes_ix[i] < yes_ix[i + 1]
                 sort_ix_no  == \A i \in 1..(Len(no_ix) - 1) :
                                   StrLess(no_ix[i], no_ix[i + 1])
             IN  IF sort_ix_no = sort_ix_yes /\ sort_ix_yes = TRUE
                 THEN IF Len(no_ix) > 1
                      THEN [err |-> "TypeError", type |-> ""]
                      ELSE [err |-> "none", type |-> "PC"]
                 ELSE [err |-> "none", type |-> "PC"]
        ELSE [err |-> "none", type |-> "PC"]

(***************************************************************************)
(* type_ called by a client on an ERP line.                                *)
(***************************************************************************)
\* a window whose status is yes, and one whose status is no
YesBlock == <<2, 1, 1, 0, 1, 1, 2>>

NoBlock == <<1, 2, 0, 2, 1, 1, 1>>

RECURSIVE Concat(_)
Concat(ss) == IF Len(ss) = 0 THEN <<>> ELSE ss[1] \o Concat(Tail(ss))

\* the ERP lines explored: any line shorter than a window, and the lines
\* made of whole blocks followed by the first points of one more block
InitType ==
    /\ phase = "idle"
    /\ result = NoCall
    /\ b0Bound = <<>>
    /\ b0Limit = <<>>
    /\ \/ \E n \in 0..(WindowSize - 1) : \E erp \in SeqsOfLen(ZoneVals, n) :
            input = [fn |-> "type_", erp |-> erp]
       \/ \E w \in 1..MaxWindows :
          \E bs \in SeqsOfLen({YesBlock, NoBlock}, w) :
          \E b \in {YesBlock, NoBlock} : \E r \in 0..(WindowSize - 1) :
            input = [fn |-> "type_", erp |-> Concat(bs) \o SubSeq(b, 1, r)]

TypeRaise(e, ssets, status) ==
    /\ result' = [fn |-> "type_", err |-> e, type |-> "",
                  ssets |-> ssets, status |-> status]
    /\ phase' = "returned"
    /\ UNCHANGED <<input, b0Bound, b0Limit>>

CallType ==
    /\ phase = "idle"
    /\ input.fn = "type_"
    /\ \E w \in {Windows(input.erp)} :
         IF w.err # "none" THEN TypeRaise(w.err, <<>>, <<>>)
         ELSE \E status \in {[i \in 1..Len(w.ssets) |->
                                 TypeMechanism(w.ssets[i])]} :
              \E t \in {TypeOfStatus(status)} :
                 /\ result' = [fn |-> "type_", err |-> t.err, type |-> t.type,
                               ssets |-> w.ssets, status |-> status]
                 /\ phase' = "returned"
                 /\ UNCHANGED <<input, b0Bound, b0Limit>>

NextType == CallType

SpecType == InitType /\ [][NextType]_vars

(***************************************************************************)
(* Properties of type_ (specification SpecType).                           *)
(***************************************************************************)
TypeReturned == phase = "returned" /\ result.fn = "type_"

\* the window lengths the claim states for a line of n points
ClaimedWindowLengths(n) ==
    [i \in 1..(n \div WindowSize) |-> WindowSize]
        \o (IF n % WindowSize = 0 THEN <<>> ELSE <<n % WindowSize>>)

\* C17 (as claimed): type_ splits a line of n points into consecutive
\* windows of exactly 7 points followed, when n is not a multiple of 7, by
\* one window of the n mod 7 remaining points; the windows partition the
\* line.
C17_WindowsOfSeven ==
    (TypeReturned /\ Len(input.erp) >= WindowSize)
        => (/\ result.err \in {"none", "TypeError"}
            /\ Concat(result.ssets) = input.erp
            /\ [i \in 1..Len(result.ssets) |-> Len(result.ssets[i])]
                  = ClaimedWindowLengths(Len(input.erp)))

\* no two neighbouring statuses are equal
Alternating(status) ==
    \A i \in 1..(Len(status) - 1) : status[i] # status[i + 1]

\* C18 (as claimed): when the window statuses are a strictly alternating
\* mix of yes and no, type_ returns CB2P.
C18_AlternatingIsCB2P ==
    (TypeReturned /\ Len(result.status) >= 2 /\ Alternating(result.status))
        => (result.err = "none" /\ result.type = "CB2P")

\* C19 (as claimed): for every non-empty line type_ raises nothing and
\* returns EC when every status is yes, NC when every status is no, CB2P
\* for a strictly alternating mix and PC for every other mix.
C19_TotalClassification ==
    (TypeReturned /\ Len(input.erp) > 0)
        => (/\ result.err = "none"
            /\ result.type \in {"EC", "NC", "CB2P", "PC"}
            /\ (Range(result.status) = {"yes"} => result.type = "EC")
            /\ (Range(result.status) = {"no"} => result.type = "NC")
            /\ (Range(result.status) = {"yes", "no"}
                /\ ~Alternating(result.status) => result.type = "PC"))

(***************************************************************************)
(* fitfunc: the polynomial fitted to the points (x, y).  The outcome keeps *)
(* the degree handed to np.polyfit and the number of coefficients of the   *)
(* polynomial; the values of the coefficients are not modelled.  A fit of  *)
(* fewer points than coefficients is rank deficient: np.polyfit warns      *)
(* (RankWarning) and returns the coefficients.                             *)
(***************************************************************************)
\* y holds 0..MaxFitLen values
MaxFitLen == 5
\* a given deg is one of -1..MaxDeg
MaxDeg == 3

\* a variant that omits the + 1
FitDegreeMut(y, deg) ==
    IF deg # PyNone THEN deg.v
    ELSE Cardinality(ArgRelMin(y)) + Cardinality(ArgRelMax(y))

\* deg if deg is not None else degree + 1, where
\* degree = len(minl) + len(maxl)
FitDegree(y, deg) ==
    IF deg # PyNone THEN deg.v
    ELSE Cardinality(ArgRelMin(y)) + Cardinality(ArgRelMax(y)) + 1

\* np.polyfit(x, y, deg) for two vectors: deg < 0, an empty x and vectors
\* of different lengths are refused in that order, otherwise deg + 1
\* coefficients are returned
Polyfit(x, y, deg) ==
    IF deg < 0 THEN [err |-> "ValueError", ncoeff |-> 0, warn |-> ""]
    ELSE IF Len(x) = 0
    THEN [err |-> "TypeError:empty", ncoeff |-> 0, warn |-> ""]
    ELSE IF Len(x) # Len(y)
    THEN [err |-> "TypeError:length", ncoeff |-> 0, warn |-> ""]
    ELSE [err |-> "none", ncoeff |-> deg + 1,
          warn |-> IF Len(x) < deg + 1 THEN "RankWarning" ELSE ""]

\* the lengths of x explored with a y of n values
FitXLengths(n) == {m \in {n - 1, n, n + 1} : m >= 0}

InitFit ==
    /\ phase = "idle"
    /\ result = NoCall
    /\ b0Bound = <<>>
    /\ b0Limit = <<>>
    /\ \E n \in 0..MaxFitLen : \E y \in SeqsOfLen(ZoneVals, n) :
       \E m \in FitXLengths(n) :
       \E deg \in {PyNone} \cup {PyInt(d) : d \in (-1)..MaxDeg} :
          input = [fn |-> "fitfunc", x |-> [i \in 1..m |-> i], y |-> y,
                   deg |-> deg]

CallFit ==
    /\ phase = "idle"
    /\ input.fn = "fitfunc"
    /\ \E d \in {FitDegree(input.y, input.deg)} :
       \E c \in {Polyfit(input.x, input.y, d)} :
          result' = [fn |-> "fitfunc", err |-> c.err, degree |-> d,
                     ncoeff |-> c.ncoeff, warn |-> c.warn]
    /\ phase' = "returned"
    /\ UNCHANGED <<input, b0Bound, b0Limit>>

NextFit == CallFit

SpecFit == InitFit /\ [][NextFit]_vars

(***************************************************************************)
(* Properties of fitfunc (specification SpecFit).                          *)
(***************************************************************************)
\* the interior points of y strictly below (above) both neighbours
StrictMinima(y) ==
    {i \in 1..Len(y) : /\ i > 1 /\ i < Len(y)
                       /\ y[i] < y[i - 1] /\ y[i] < y[i + 1]}

StrictMaxima(y) ==
    {i \in 1..Len(y) : /\ i > 1 /\ i < Len(y)
                       /\ y[i] > y[i - 1] /\ y[i] > y[i + 1]}

\* C20: with deg omitted, fitfunc fits a polynomial of degree (number of
\* strict local minima of y) + (number of strict local maxima of y) + 1,
\* the end points never counting; with deg given it fits that degree.
C20_FitDegree ==
    (phase = "returned" /\ result.fn = "fitfunc" /\ result.err = "none")
        => (/\ result.ncoeff = result.degree + 1
            /\ result.degree =
                 IF input.deg = PyNone
                 THEN Cardinality(StrictMinima(input.y))
                      + Cardinality(StrictMaxima(input.y)) + 1
                 ELSE input.deg.v)

C20_Witness ==
    /\ phase = "returned" /\ result.fn = "fitfunc" /\ result.err = "none"
    /\ input.deg = PyNone
    /\ Cardinality(StrictMinima(input.y)) = 1
    /\ Cardinality(StrictMaxima(input.y)) = 2
    /\ input.y[1] < input.y[2]
    /\ result.degree = 4 /\ result.ncoeff = 5

\* C21 (as claimed): fitfunc raises when len(x) # len(y) and whenever
\* len(x) < 2, a single point included; it returns no fitted curve then.
C21_FitRefusesShortInput ==
    (phase = "returned" /\ result.fn = "fitfunc"
     /\ (Len(input.x) # Len(input.y) \/ Len(input.x) < 2))
        => result.err # "none"

(***************************************************************************)
(* scalePosition: the correction of positions by a fitted function.  func  *)
(* is None, a string, a number, a Python function (def or lambda) or       *)
(* another callable object (a functools.partial, an instance of a class    *)
(* with __call__, a built-in); chars is the text str(func) yields, cut     *)
(* short for the objects.  ydata is a list or an array.  The outcome of    *)
(* scipy's curve_fit is an input of the model.                             *)
(***************************************************************************)
\* ydata holds 1..MaxYLen values
MaxYLen == 3

PyFunction == [kind |-> "function", chars |-> <<"<", "f", "u", "n", "c", ">">>]

PyLambda == [kind |-> "function", chars |-> <<"<", "l", "a", "m", ">">>]

PyPartial == [kind |-> "partial", chars |-> <<"<", "p", "a", "r", "t", ">">>]

PyBuiltin == [kind |-> "builtin", chars |-> <<"<", "b", "u", "i", "l", "t", ">">>]

PyNumber == [kind |-> "int", chars |-> <<"3">>]

StrLinear == <<"l", "i", "n", "e", "a", "r">>

\* hasattr(func, '__call__')
HasCall(func) == func.kind \in {"function", "partial", "builtin"}

\* inspect.isfunction(func): true of the functions written in Python only
IsFunction(func) == func.kind = "function"

\* lines 955-959: the model fitted, or the refusal of func
SelectFunc(func) ==
    IF Lower(Str(func)) \in {StrNone, StrLinear}
    THEN [err |-> "none", model |-> "linfunc"]
    ELSE IF ~HasCall(func) \/ ~IsFunction(func)
    THEN [err |-> "TypeError:func", model |-> ""]
    ELSE [err |-> "none", model |-> "func"]

\* xdata = np.linspace(0, 4, len(ydata)) when xdata is None: its length
XLength(ydata, xdata) == IF xdata = PyNone THEN Len(ydata) ELSE Len(xdata.v)

\* what curve_fit can do: return popt and pcov, or fail to converge
CurveFitOuts == {"none", "RuntimeError"}

\* scalePosition(ydata, xdata, func), fit being the outcome of curve_fit
ScalePosition(ydata, xdata, func, fit) ==
    LET f == SelectFunc(func)
    IN  IF f.err # "none"
        THEN [err |-> f.err, model |-> "", n |-> 0, steps |-> <<"func">>]
        ELSE IF XLength(ydata, xdata) # Len(ydata)
        THEN [err |-> "ValueError:length", model |-> f.model, n |-> 0,
              steps |-> <<"func", "length">>]
        ELSE [err |-> fit, model |-> f.model,
              n |-> IF fit = "none" THEN Len(ydata) ELSE 0,
              steps |-> <<"func", "length", "fit">>]

FuncVals ==
    {PyNone, PyStrOf(StrLinear), PyStrOf(<<"L", "i", "n", "e", "a", "r">>),
     PyStrOf(<<"e", "x", "p">>), PyNumber, PyFunction, PyLambda, PyPartial,
     PyBuiltin}

\* xdata omitted, or a sequence as long as ydata or one value longer
XDataVals(n) == {PyNone} \cup {[kind |-> "array", v |-> [i \in 1..m |-> i]] :
                                 m \in {n, n + 1}}

InitScale ==
    /\ phase = "idle"
    /\ result = NoCall
    /\ b0Bound = <<>>
    /\ b0Limit = <<>>
    /\ \E n \in 1..MaxYLen : \E ydata \in SeqsOfLen(ZoneVals, n) :
       \E xdata \in XDataVals(n) : \E func \in FuncVals :
          input = [fn |-> "scalePosition", ydata |-> ydata, xdata |-> xdata,
                   func |-> func]

CallScale ==
    /\ phase = "idle"
    /\ input.fn = "scalePosition"
    /\ \E fit \in CurveFitOuts :
       \E r \in {ScalePosition(input.ydata, input.xdata, input.func, fit)} :
          result' = [fn |-> "scalePosition", err |-> r.err, model |-> r.model,
                     n |-> r.n, steps |-> r.steps]
    /\ phase' = "returned"
    /\ UNCHANGED <<input, b0Bound, b0Limit>>

NextScale == CallScale

SpecScale == InitScale /\ [][NextScale]_vars

(***************************************************************************)
(* Properties of scalePosition (specification SpecScale).                  *)
(***************************************************************************)
\* callable(func)
Callable(func) == func.kind \in {"function", "partial", "builtin"}

\* C22 (as claimed): for func omitted or any object other than a string,
\* scalePosition raises the TypeError on func exactly when func is supplied
\* and is not callable; every callable func passes on to the length check
\* and the fit, and func omitted selects the linear model.
C22_AcceptanceByCallability ==
    (phase = "returned" /\ result.fn = "scalePosition"
     /\ input.func.kind # "str")
        => (/\ (result.err = "TypeError:func")
                  <=> (input.func # PyNone /\ ~Callable(input.func))
            /\ Callable(input.func) => "length" \in Range(result.steps)
            /\ input.func = PyNone => result.model = "linfunc")

(***************************************************************************)
(* Further properties of ohmicArea (specification SpecOhm).                *)
(***************************************************************************)
\* C23: with sum=False, whenever ohmicArea returns, roots has even length
\* and ohmS and err_ohmS each hold len(roots)//2 values, one per
\* consecutive (lower, upper) pair of roots.
C23_OneAreaPerPairOfRoots ==
    (ReturnedFrom({"ohmicArea"}) /\ result.err = "none" /\ ~input.sum)
        => (/\ Len(result.roots) % 2 = 0
            /\ Len(result.ohmS) = Len(result.roots) \div 2
            /\ Len(result.err_ohmS) = Len(result.roots) \div 2
            /\ \A k \in 1..Len(result.ohmS) :
                  result.roots[2 * k - 1] <= result.roots[2 * k])

C23_Witness ==
    /\ ReturnedFrom({"ohmicArea"}) /\ result.err = "none" /\ ~input.sum
    /\ Len(result.roots) = 4
    /\ Len(result.ohmS) = 2 /\ Len(result.err_ohmS) = 2
    /\ result.roots[2] < result.roots[3]

(***************************************************************************)
(* Further properties of the bound finders (specification Spec).           *)
(***************************************************************************)
\* the k-th (lower, upper) pair of a list of bounds
Lower_(out, k) == out[2 * k - 1]

Upper_(out, k) == out[2 * k]

\* C24: on a non-empty strictly increasing index array,
\* find_bound_for_integration with a fresh accumulator returns a list of
\* even length whose pairs (lower, upper) satisfy lower <= upper, leave a
\* gap between one pair and the next, hold only indices of the input, and
\* cover every index of the input exactly once: each pair is a maximal
\* contiguous run.
C24_PairsAreMaximalRuns ==
    (ReturnedFrom({"find_bound"}) /\ input.b0 = "fresh" /\ input.ix # <<>>)
        => (/\ result.err = "none"
            /\ Len(result.out) % 2 = 0
            /\ LET out == result.out
                   n   == Len(result.out) \div 2
               IN  /\ \A k \in 1..n : Lower_(out, k) <= Upper_(out, k)
                   /\ \A k \in 1..(n - 1) :
                         Upper_(out, k) + 1 < Lower_(out, k + 1)
                   /\ \A k \in 1..n :
                         \A v \in Lower_(out, k)..Upper_(out, k) :
                            v \in Range(input.ix)
                   /\ \A v \in Range(input.ix) :
                         Cardinality({k \in 1..n :
                            v \in Lower_(out, k)..Upper_(out, k)}) = 1)

C24_Witness ==
    /\ ReturnedFrom({"find_bound"}) /\ input.b0 = "fresh"
    /\ Len(input.ix) = 3 /\ ~Contiguous(input.ix)
    /\ Len(result.out) = 4
    /\ result.out[1] < result.out[2] /\ result.out[3] = result.out[4]

\* C25 (as claimed): the function ohmicArea integrates between the roots is
\* basementFn - fittedFn, the basement line of dummy_basement_curve minus
\* the fitted sounding curve, the two curves whose sampled difference
\* located the roots.
C25_IntegrandIsResidual ==
    (ReturnedFrom({"ohmicArea"}) /\ result.err = "none")
        => (/\ result.integrand = result.residual
            /\ result.integrand.minuend.kind = "dummy_basement_curve")

(***************************************************************************)
(* dummy_basement_curve: the line slope * x + beta with beta = func(ks).   *)
(* func is a polynomial with integer coefficients, highest power first;    *)
(* np.sin(np.deg2rad(slope)) and the values of the line are held in        *)
(* thousandths.                                                            *)
(***************************************************************************)
\* ks and the points the line is evaluated at are 0..MaxKs
MaxKs == 3
\* func has at most MaxCoef coefficients
MaxCoef == 3

\* np.poly1d(c)(x)
RECURSIVE PolyEval(_, _)
PolyEval(c, x) ==
    IF Len(c) = 0 THEN 0
    ELSE c[Len(c)] + x * PolyEval(SubSeq(c, 1, Len(c) - 1), x)

\* the angles explored, in degrees, with 1000 * sin of each
SlopeDegrees == {0, 30, 45, 90}

SinMilli(deg) ==
    IF deg = 0 THEN 0 ELSE IF deg = 30 THEN 500 ELSE IF deg = 45 THEN 707
    ELSE 1000

\* dummy_basement_curve(func, ks, slope): func45 as its slope and intercept
DummyBasementCurve(func, ks, slope) ==
    [func45 |-> [slope |-> SinMilli(slope), beta |-> PolyEval(func, ks)],
     beta |-> PolyEval(func, ks)]

\* func45(x) = slope * x + beta, in thousandths
Func45(f, x) == f.slope * x + 1000 * f.beta

InitBasement ==
    /\ phase = "idle"
    /\ result = NoCall
    /\ b0Bound = <<>>
    /\ b0Limit = <<>>
    /\ \E n \in 1..MaxCoef : \E func \in SeqsOfLen(ZoneVals, n) :
       \E ks \in 0..MaxKs : \E slope \in SlopeDegrees :
          input = [fn |-> "dummy_basement_curve", func |-> func, ks |-> ks,
                   slope |-> slope]

CallBasement ==
    /\ phase = "idle"
    /\ input.fn = "dummy_basement_curve"
    /\ \E r \in {DummyBasementCurve(input.func, input.ks, input.slope)} :
          result' = [fn |-> "dummy_basement_curve", func45 |-> r.func45,
                     beta |-> r.beta]
    /\ phase' = "returned"
    /\ UNCHANGED <<input, b0Bound, b0Limit>>

\* the caller evaluates the returned line at x
EvalBasement(x) ==
    /\ phase = "returned"
    /\ result.fn = "dummy_basement_curve"
    /\ result' = [fn |-> "func45", func45 |-> result.func45,
                  beta |-> result.beta, x |-> x,
                  value |-> Func45(result.func45, x)]
    /\ phase' = "evaluated"
    /\ UNCHANGED <<input, b0Bound, b0Limit>>

NextBasement == CallBasement \/ \E x \in 0..MaxKs : EvalBasement(x)

SpecBasement == InitBasement /\ [][NextBasement]_vars

(***************************************************************************)
(* Properties of dummy_basement_curve (specification SpecBasement).        *)
(***************************************************************************)
\* C26 (as claimed): the line returned by dummy_basement_curve(func, ks)
\* with the default slope passes through the fitted curve at the key depth,
\* basementFn(ks) = func(ks), for every ks.
C26_BasementThroughKeyDepth ==
    (phase = "evaluated" /\ result.fn = "func45" /\ input.slope = 45
     /\ result.x = input.ks)
        => result.value = 1000 * PolyEval(input.func, input.ks)

\* the key depth is a number of metres that is one of the measured
\* positions, above 0 and below the deepest position
KeyAtMeasuredPosition ==
    /\ input.ohmSkey.kind = "num"
    /\ input.ohmSkey.v \in Range(input.AB)
    /\ 0 < input.ohmSkey.v
    /\ input.ohmSkey.v < SetMax(Range(input.AB))

\* C27 (as claimed): for any profile in which ohmSkey is a measured
\* position with 0 < ohmSkey < max(positions), ohmicArea returns a
\* non-empty roots array whose first element is ohmSkey.
C27_RootsStartAtKeyDepth ==
    (ReturnedFrom({"ohmicArea"}) /\ KeyAtMeasuredPosition)
        => (/\ result.err = "none"
            /\ result.roots # <<>>
            /\ result.roots[1] = (NGrid - 1) * input.ohmSkey.v)

(***************************************************************************)
(* Further properties of vesDataOperator (specification SpecVes).          *)
(***************************************************************************)
\* C28 (as claimed): with mode leaveOneOut, whenever the call returns, the
\* resistivity at every repeated spacing is one of the resistivities
\* measured at that spacing, for every outcome of the random draw.
C28_LeaveOneOutPicksAtPosition ==
    (/\ ReturnedFrom({"vesDataOperator"}) /\ result.err = "none"
     /\ TypeofopLower(input.typeofop) = StrLeaveOneOut)
        => \A j \in 1..Len(result.X) :
             Cardinality(At(input.AB, result.X[j])) > 1
                 => result.Y[j] \in
                       {input.rhoa[i] : i \in At(input.AB, result.X[j])}

(***************************************************************************)
(* _type_mechanism called by a client on one window with a dipole length.  *)
(***************************************************************************)
\* the default of dipolelength
DefaultDipole == 10

DipoleVals == {1, DefaultDipole, 25}

\* a variant comparing with 4 times the default dipole length
WidthStatusMut(wcz, dipolelength) ==
    IF wcz > WidthFactor * DefaultDipole THEN "yes" ELSE "no"

\* status = 'yes' if wcz > 4 * dipolelength else 'no'
WidthStatus(wcz, dipolelength) ==
    IF wcz > WidthFactor * dipolelength THEN "yes" ELSE "no"

\* _type_mechanism(cz, dipolelength): the status and the width wcz
TypeMechanismOf(cz, dipolelength) ==
    LET s_index == Argmin(cz)
        lc  == PyHead(cz, s_index + 1)
        rc  == PyTail(cz, s_index)
        ixl == SetMin(WhereIs(lc, SetMax(Range(lc))))
        ixr == SetMax(WhereIs(rc, SetMax(Range(rc)))) + s_index
        wcz == dipolelength * Abs(ixl - ixr)
    IN  [status |-> WidthStatus(wcz, dipolelength), wcz |-> wcz]

InitMechanism ==
    /\ phase = "idle"
    /\ result = NoCall
    /\ b0Bound = <<>>
    /\ b0Limit = <<>>
    /\ \E n \in 1..MaxZone : \E cz \in SeqsOfLen(ZoneVals, n) :
       \E dl \in DipoleVals :
          input = [fn |-> "_type_mechanism", cz |-> cz, dipolelength |-> dl]

CallMechanism ==
    /\ phase = "idle"
    /\ input.fn = "_type_mechanism"
    /\ \E r \in {TypeMechanismOf(input.cz, input.dipolelength)} :
          result' = [fn |-> "_type_mechanism", status |-> r.status,
                     wcz |-> r.wcz]
    /\ phase' = "returned"
    /\ UNCHANGED <<input, b0Bound, b0Limit>>

NextMechanism == CallMechanism

SpecMechanism == InitMechanism /\ [][NextMechanism]_vars

(***************************************************************************)
(* Properties of _type_mechanism (specification SpecMechanism).            *)
(***************************************************************************)
\* the position (1-based) of the first minimum of cz
FirstMinimum(cz) ==
    SetMin({i \in 1..Len(cz) : \A j \in 1..Len(cz) : cz[i] <= cz[j]})

\* the first position of the maximum of cz[1..m] and the last position of
\* the maximum of cz[m..]
FirstLeftMaximum(cz, m) ==
    SetMin({i \in 1..m : \A j \in 1..m : cz[j] <= cz[i]})

LastRightMaximum(cz, m) ==
    SetMax({i \in m..Len(cz) : \A j \in m..Len(cz) : cz[j] <= cz[i]})

\* C29: _type_mechanism splits the window at its minimum, which belongs to
\* both halves, and returns yes exactly when the first occurrence of the
\* maximum of the left half and the last occurrence of the maximum of the
\* right half are more than 4 positions apart, whatever the positive dipole
\* length; every window of 5 points or fewer has status no.
C29_StatusByIndexDistance ==
    (phase = "returned" /\ result.fn = "_type_mechanism")
        => LET m == FirstMinimum(input.cz)
               d == LastRightMaximum(input.cz, m)
                       - FirstLeftMaximum(input.cz, m)
           IN  /\ (result.status = "yes") <=> (d > 4)
               /\ result.status \in {"yes", "no"}
               /\ result.wcz = input.dipolelength * d
               /\ Len(input.cz) <= 5 => result.status = "no"

C29_Witness ==
    /\ phase = "returned" /\ result.fn = "_type_mechanism"
    /\ input.dipolelength = 1
    /\ Len(input.cz) = 6
    /\ result.status = "yes" /\ result.wcz = 5

(***************************************************************************)
(* The caller's profile: a client calls vesDataOperator or ohmicArea.      *)
(***************************************************************************)
InitProfile == InitVes \/ InitOhm

NextProfile == CallVes \/ CallOhm

SpecProfile == InitProfile /\ [][NextProfile]_vars

\* C30: after any call to vesDataOperator or ohmicArea, whether it returned
\* or raised, the position and resistivity sequences passed in hold the
\* same values in the same order as before the call.
C30_ProfileReadOnly ==
    ReturnedFrom({"vesDataOperator", "ohmicArea"})
        => (/\ result.callerAB = input.AB
            /\ result.callerRhoa = input.rhoa)

C30_Witness ==
    /\ ReturnedFrom({"vesDataOperator"}) /\ result.err = "none"
    /\ Len(result.Y) < Len(input.rhoa)
    /\ \E j \in 1..Len(result.Y) : result.Y[j] \notin Range(input.rhoa)
    /\ result.callerRhoa = input.rhoa
    /\ result.callerAB = input.AB

=============================================================================
